---- MODULE Spec2Model ----
(***************************************************************************)
(* A model of the Monkey language front end of dgnorton/monkey: the lexer  *)
(* (package lexer), the AST and its rendering (package ast) and the parser *)
(* (package parser), and the REPL (package repl).                          *)
(*                                                                         *)
(* Runes are one-character strings; NUL, DIU and ARABIC3 stand for the     *)
(* runes U+0000, U+4E22 and U+0663.  A Go string is the sequence of its    *)
(* runes.  A nil pointer, a nil interface and a nil error are all Nil.     *)
(***************************************************************************)
EXTENDS Integers, Sequences, FiniteSets, TLC

VARIABLES
    words,    \* the pieces the source text was put together from
    input,    \* the source text handed to the lexer of the current pass
    lex,      \* the Lexer
    prog,     \* Parse: the Statements of the Program under construction
    status,   \* Parse: "run", "done", "error", "panic", "strpanic"; "api", "repl"
    retProg,  \* Parse: the *ast.Program returned
    retErr,   \* Parse: the error returned
    pass,     \* 1: parsing the source, 2: parsing the rendering of pass 1
    prog1,    \* the Program pass 1 returned
    lastOp,   \* lexer API: the last call made, "none", "Next" or "Peek"
    lastTok,  \* lexer API: the token that call returned
    lastErr,  \* lexer API: the error that call returned
    lastOff,  \* lexer API: index in input of the first rune of lastTok
    fresh,    \* lexer API: the last call scanned its token from the input
    prevOp,   \* lexer API: the call before the last one
    prevTok,  \* lexer API: the token that call returned
    stdin,    \* REPL: r.stdin, the lines typed and read so far and its state
    stdout,   \* REPL: r.stdout, its kind and the last text written to it
    stop,     \* REPL: the channel stop: "nil", "open" or "closed"
    done,     \* REPL: the channel done: "nil", "open" or "closed"
    loopPc,   \* REPL: where the goroutine of loop is
    evalPc,   \* REPL: where the goroutine of eval is
    ch,       \* REPL: the result the goroutine of eval is sending on ch
    result,   \* REPL: the result or error the loop is about to print
    cancelPc  \* REPL: where the caller of cancel() is

vars == <<words, input, lex, prog, status, retProg, retErr, pass, prog1,
          lastOp, lastTok, lastErr, lastOff, fresh, prevOp, prevTok,
          stdin, stdout, stop, done, loopPc, evalPc, ch, result, cancelPc>>

parseVars == <<prog, status, retProg, retErr, pass, prog1>>
apiVars == <<lastOp, lastTok, lastErr, lastOff, fresh, prevOp, prevTok>>
replVars == <<stdin, stdout, stop, done, loopPc, evalPc, ch, result, cancelPc>>

-----------------------------------------------------------------------------
(* Bounds of the model.                                                    *)

\* Spec: the source text is at most MaxWords words of Vocab.
MaxWords == 4
\* LexSpec: the source text is at most MaxRunes runes of Alphabet.
MaxRunes == 4

-----------------------------------------------------------------------------
(* Runes.                                                                  *)

Nil == [kind |-> "nil"]
NUL == "NUL"
DIU == "U+4E22"
ARABIC3 == "U+0663"
NL == "\n"

Lower == {"a", "b", "c", "d", "e", "f", "g", "h", "i", "j", "k", "l", "m",
          "n", "o", "p", "q", "r", "s", "t", "u", "v", "w", "x", "y", "z"}
Upper == {"A", "B", "C", "D", "E", "F", "G", "H", "I", "J", "K", "L", "M",
          "N", "O", "P", "Q", "R", "S", "T", "U", "V", "W", "X", "Y", "Z"}
AsciiDigits == {"0", "1", "2", "3", "4", "5", "6", "7", "8", "9"}
UnicodeLetters == {DIU}
UnicodeDigits == {ARABIC3}

\* utf8.RuneLen: the number of bytes of the rune's encoding.
RuneLen(r) ==
    IF r = DIU THEN 3 ELSE IF r = ARABIC3 THEN 2 ELSE 1

IsSpace(r) == r \in {" ", "\t", NL, "\r"}

isLetter(r) == r \in Lower \/ r \in Upper \/ r = "_" \/ r \in UnicodeLetters

isDigit(r) == r \in AsciiDigits \/ r \in UnicodeDigits

-----------------------------------------------------------------------------
(* Token types.                                                            *)

ILLEGAL == 0
EOF == 1
IDENT == 2
INT == 3
ASSIGN == 4
EQ == 5
NEQ == 6
ADD == 7
SUB == 8
MUL == 9
DIV == 10
NOT == 11
LT == 12
GT == 13
SEMICOLON == 14
LPAREN == 15
RPAREN == 16
LBRACE == 17
RBRACE == 18
LSQUARE == 19
RSQUARE == 20
COMMA == 21
KW_ELSE == 22
KW_FALSE == 23
FN == 24
KW_IF == 25
KW_LET == 26
RETURN == 27
KW_TRUE == 28
MAXTOKTYPE == KW_TRUE

runeTokenTypes ==
    [r \in {"+", "-", "*", "/", "<", ">", ";", "(", ")", "{", "}", "[", "]", ","} |->
        CASE r = "+" -> ADD
          [] r = "-" -> SUB
          [] r = "*" -> MUL
          [] r = "/" -> DIV
          [] r = "<" -> LT
          [] r = ">" -> GT
          [] r = ";" -> SEMICOLON
          [] r = "(" -> LPAREN
          [] r = ")" -> RPAREN
          [] r = "{" -> LBRACE
          [] r = "}" -> RBRACE
          [] r = "[" -> LSQUARE
          [] r = "]" -> RSQUARE
          [] r = "," -> COMMA]

lookupIdentType(ident) ==
    CASE ident = <<"e", "l", "s", "e">> -> KW_ELSE
      [] ident = <<"f", "a", "l", "s", "e">> -> KW_FALSE
      [] ident = <<"f", "n">> -> FN
      [] ident = <<"i", "f">> -> KW_IF
      [] ident = <<"l", "e", "t">> -> KW_LET
      [] ident = <<"r", "e", "t", "u", "r", "n">> -> RETURN
      [] ident = <<"t", "r", "u", "e">> -> KW_TRUE
      [] OTHER -> IDENT

NewToken(t, filename, line, col, s) ==
    [Type |-> t, File |-> filename, Line |-> line, Col |-> col, String |-> s, Int |-> 0]

-----------------------------------------------------------------------------
(* strconv.ParseInt(s, 10, 64) on a run of digit runes.                    *)

IoEOF == [kind |-> "io.EOF"]
ErrSyntax == [kind |-> "strconv.NumError", Err |-> "ErrSyntax"]
ErrRange == [kind |-> "strconv.NumError", Err |-> "ErrRange"]

DigitVal(d) ==
    CASE d = "0" -> 0 [] d = "1" -> 1 [] d = "2" -> 2 [] d = "3" -> 3 [] d = "4" -> 4
      [] d = "5" -> 5 [] d = "6" -> 6 [] d = "7" -> 7 [] d = "8" -> 8 [] d = "9" -> 9

\* The decimal digits of 1<<63 - 1.
MaxInt64Digits ==
    <<9, 2, 2, 3, 3, 7, 2, 0, 3, 6, 8, 5, 4, 7, 7, 5, 8, 0, 7>>

RECURSIVE StripZeros(_)
StripZeros(s) ==
    IF Len(s) > 1 /\ Head(s) = "0" THEN StripZeros(Tail(s)) ELSE s

\* a > b for two digit sequences of the same length.
RECURSIVE DigitsGreater(_, _)
DigitsGreater(a, b) ==
    IF a = <<>> THEN FALSE
    ELSE IF DigitVal(Head(a)) # Head(b) THEN DigitVal(Head(a)) > Head(b)
    ELSE DigitsGreater(Tail(a), Tail(b))

ExceedsInt64(s) ==
    LET t == StripZeros(s) IN
    \/ Len(t) > Len(MaxInt64Digits)
    \/ Len(t) = Len(MaxInt64Digits) /\ DigitsGreater(t, MaxInt64Digits)

RECURSIVE DecValue(_, _)
DecValue(s, acc) ==
    IF s = <<>> THEN acc ELSE DecValue(Tail(s), 10 * acc + DigitVal(Head(s)))

ParseInt(s) ==
    IF \E k \in 1..Len(s) : s[k] \notin AsciiDigits THEN [i |-> 0, err |-> ErrSyntax]
    ELSE IF ExceedsInt64(s) THEN [i |-> 0, err |-> ErrRange]
    ELSE [i |-> DecValue(s, 0), err |-> Nil]

-----------------------------------------------------------------------------
(* The Lexer.  src and rpos are the bufio.Reader: its data and the number  *)
(* of runes read from it.  A method returns a record: the Lexer after the  *)
(* call (l) and what the method returns.  A method that uses the result of *)
(* a call more than once hands it to a second operator as a parameter.     *)

\* closer is nil for a reader that is no io.Closer (a strings.Reader).
New(filename, r) ==
    [filename |-> filename, src |-> r, rpos |-> 0, closer |-> Nil,
     line |-> 1, col |-> 1,
     currune |-> NUL, nxtrune |-> NUL,
     curtok |-> Nil, nxttok |-> Nil]

\* os.Open on a file that is there: the file handle, with the number of
\* times it has been closed.
OsOpen == [kind |-> "os.File", closed |-> 0]

\* lexer.Open(filename) on a file that holds data: New(filename, f), with
\* f as the io.Closer.
LexerOpen(filename, data) == [New(filename, data) EXCEPT !.closer = OsOpen]

\* Lexer.Close
Close(l) ==
    IF l.closer # Nil THEN [l EXCEPT !.closer.closed = @ + 1] ELSE l

\* bufio.Reader.ReadRune
ReadRune(l) ==
    IF l.rpos >= Len(l.src)
    THEN [l |-> l, r |-> NUL, size |-> 0, err |-> IoEOF]
    ELSE [l |-> [l EXCEPT !.rpos = @ + 1], r |-> l.src[l.rpos + 1],
          size |-> RuneLen(l.src[l.rpos + 1]), err |-> Nil]

lexErr(l, err) ==
    [kind |-> "lexer.Error", Err |-> err, File |-> l.filename, Line |-> l.line, Col |-> l.col]

\* The tail of readRune: l.col++, and a newline starts a line at column 1.
advance(l) ==
    IF l.currune = NL
    THEN [l |-> [l EXCEPT !.line = @ + 1, !.col = 1], r |-> l.currune, err |-> Nil]
    ELSE [l |-> [l EXCEPT !.col = @ + 1], r |-> l.currune, err |-> Nil]

\* readRune after l.r.ReadRune() returned rr.
readRuneOf(rr) ==
    IF rr.err # Nil THEN [l |-> rr.l, r |-> NUL, err |-> rr.err]
    ELSE advance([rr.l EXCEPT !.currune = rr.r])

readRune(l) ==
    IF l.nxtrune # NUL
    THEN advance([l EXCEPT !.currune = l.nxtrune, !.nxtrune = NUL])
    ELSE readRuneOf(ReadRune(l))

\* peakRune after l.r.ReadRune() returned rr.
peakRuneOf(rr) ==
    IF rr.err # Nil THEN [l |-> rr.l, r |-> NUL, err |-> rr.err]
    ELSE [l |-> [rr.l EXCEPT !.nxtrune = rr.r], r |-> rr.r, err |-> Nil]

peakRune(l) ==
    IF l.nxtrune # NUL THEN [l |-> l, r |-> l.nxtrune, err |-> Nil]
    ELSE peakRuneOf(ReadRune(l))

RECURSIVE skipSpace(_)

\* One iteration of skipSpace after l.peakRune() returned p.
skipSpaceOf(p) ==
    IF p.err # Nil THEN [l |-> p.l, err |-> p.err]
    ELSE IF ~IsSpace(p.r) THEN [l |-> p.l, err |-> Nil]
    ELSE skipSpace(readRune(p.l).l)

skipSpace(l) == skipSpaceOf(peakRune(l))

newTok(l, t, s, line, col) ==
    [tok |-> NewToken(t, l.filename,
                      IF line = 0 THEN l.line ELSE line,
                      (IF col = 0 THEN l.col ELSE col) - 1, s),
     err |-> IF t = ILLEGAL THEN lexErr(l, [kind |-> "invalid token", s |-> s]) ELSE Nil]

\* return l.newTok(t, s, line, col) in readTok.
retTok(l, t, s, line, col) ==
    [l |-> l, tok |-> newTok(l, t, s, line, col).tok, err |-> newTok(l, t, s, line, col).err]

\* The scanning loop of readIdentTok: sb is the strings.Builder.
RECURSIVE identLoop(_, _)

identLoopRead(rr, sb) == identLoop(rr.l, Append(sb, rr.r))

identLoopOf(p, sb) ==
    IF p.err # Nil THEN [l |-> p.l, sb |-> sb]
    ELSE IF ~isLetter(p.r) /\ ~isDigit(p.r) THEN [l |-> p.l, sb |-> sb]
    ELSE identLoopRead(readRune(p.l), sb)

identLoop(l, sb) == identLoopOf(peakRune(l), sb)

\* readIdentTok after its loop: sc is the Lexer and the strings.Builder.
identTok(sc, startCol) ==
    [l |-> sc.l,
     tok |-> [newTok(sc.l, lookupIdentType(sc.sb), sc.sb, 0, 0).tok EXCEPT !.Col = startCol],
     err |-> Nil]

readIdentTok(l) == identTok(identLoop(l, <<l.currune>>), l.col - 1)

\* The scanning loop of readIntTok.
RECURSIVE intLoop(_, _)

intLoopRead(rr, sb) == intLoop(rr.l, Append(sb, rr.r))

intLoopOf(p, sb) ==
    IF p.err # Nil THEN [l |-> p.l, sb |-> sb]
    ELSE IF ~isDigit(p.r) THEN [l |-> p.l, sb |-> sb]
    ELSE intLoopRead(readRune(p.l), sb)

intLoop(l, sb) == intLoopOf(peakRune(l), sb)

\* readIntTok after strconv.ParseInt returned pi.
intTokOf(sc, pi, startCol) ==
    IF pi.err # Nil THEN [l |-> sc.l, tok |-> Nil, err |-> pi.err]
    ELSE [l |-> sc.l,
          tok |-> [newTok(sc.l, INT, sc.sb, 0, 0).tok EXCEPT !.Int = pi.i, !.Col = startCol],
          err |-> Nil]

intTok(sc, startCol) == intTokOf(sc, ParseInt(sc.sb), startCol)

readIntTok(l) == intTok(intLoop(l, <<l.currune>>), l.col - 1)

readNumTok(l) == readIntTok(l)

\* The cases '=' and '!' of readTok after l.peakRune() returned p.
twoRuneTokOf(p, one, two, s1, s2) ==
    IF p.r = "="
    THEN retTok(readRune(p.l).l, two, s2, p.l.line, p.l.col)
    ELSE retTok(p.l, one, s1, 0, 0)

twoRuneTok(l, one, two, s1, s2) == twoRuneTokOf(peakRune(l), one, two, s1, s2)

\* The switch of readTok on the rune r.
scanTok(l, r) ==
    CASE r \in DOMAIN runeTokenTypes -> retTok(l, runeTokenTypes[r], <<r>>, 0, 0)
      [] r = "=" -> twoRuneTok(l, ASSIGN, EQ, <<"=">>, <<"=", "=">>)
      [] r = "!" -> twoRuneTok(l, NOT, NEQ, <<"!">>, <<"!", "=">>)
      [] OTHER ->
           IF isLetter(r) THEN readIdentTok(l)
           ELSE IF isDigit(r) THEN readNumTok(l)
           ELSE retTok(l, ILLEGAL, <<r>>, 0, 0)

\* off: the index in l.src of the first rune of the token (0 at EOF), which
\* is the number of runes read from the reader when readTok has read it.
withOff(res, off) == [l |-> res.l, tok |-> res.tok, err |-> res.err, off |-> off]

\* readTok after l.readRune() returned rr.
readTokRune(rr) ==
    IF rr.err # Nil THEN withOff(retTok(rr.l, EOF, <<>>, 0, 0), 0)
    ELSE withOff(scanTok(rr.l, rr.r), rr.l.rpos)

\* A readTok that, at the end of the input, sets the column back to 1.
readTokSkippedRewinds(sk) ==
    IF sk.err # Nil
    THEN withOff([retTok(sk.l, EOF, <<>>, 0, 0) EXCEPT !.l = [sk.l EXCEPT !.col = 1]], 0)
    ELSE readTokRune(readRune(sk.l))

\* readTok after l.skipSpace() returned sk.
readTokSkipped(sk) ==
    IF sk.err # Nil THEN withOff(retTok(sk.l, EOF, <<>>, 0, 0), 0)
    ELSE readTokRune(readRune(sk.l))

readTok(l) == readTokSkipped(skipSpace(l))

\* Next after l.readTok() returned rt.
nextOf(rt) ==
    IF rt.err # Nil THEN [l |-> rt.l, tok |-> Nil, err |-> rt.err]
    ELSE [l |-> [rt.l EXCEPT !.curtok = rt.tok], tok |-> rt.tok, err |-> Nil]

\* Lexer.Next
LexerNext(l) ==
    IF l.nxttok # Nil
    THEN [l |-> [l EXCEPT !.curtok = l.nxttok, !.nxttok = Nil], tok |-> l.nxttok, err |-> Nil]
    ELSE nextOf(readTok(l))

\* A Peek that returns the token without keeping it in l.nxttok.
peekOfUnbuffered(rt) ==
    IF rt.err # Nil THEN [l |-> rt.l, tok |-> Nil, err |-> rt.err]
    ELSE [l |-> rt.l, tok |-> rt.tok, err |-> Nil]

\* Peek after l.readTok() returned rt.
peekOf(rt) ==
    IF rt.err # Nil THEN [l |-> rt.l, tok |-> Nil, err |-> rt.err]
    ELSE [l |-> [rt.l EXCEPT !.nxttok = rt.tok], tok |-> rt.tok, err |-> Nil]

\* Lexer.Peek
LexerPeek(l) ==
    IF l.nxttok # Nil
    THEN [l |-> l, tok |-> l.nxttok, err |-> Nil]
    ELSE peekOf(readTok(l))

-----------------------------------------------------------------------------
(* Package ast: the nodes and their String methods.  A String method       *)
(* returns [s, panic]: the text, or panic when it dereferences nil.        *)

NewProgram == [Statements |-> <<>>]

NewLetStmt(t, name, value) ==
    [node |-> "LetStmt", Token |-> t, Name |-> name, Value |-> value]

NewReturnStmt(t, e) ==
    [node |-> "ReturnStmt", Token |-> t, Value |-> e]

NewExprStmt(t, e) ==
    [node |-> "ExprStmt", Token |-> t, Expr |-> e]

NewIdentExpr(t) ==
    [node |-> "IdentExpr", Token |-> t, Value |-> t.String]

NewIntLiteralExpr(t) ==
    [node |-> "IntLiteralExpr", Token |-> t, Value |-> t.Int]

NewPrefixExpr(t, operator, e) ==
    [node |-> "PrefixExpr", Token |-> t, Operator |-> operator, Expr |-> e]

StrPanic == [s |-> <<>>, panic |-> TRUE]
Str(s) == [s |-> s, panic |-> FALSE]

\* a.String() + b.String(): a panic in either is a panic.
Cat(a, b) ==
    IF a.panic \/ b.panic THEN StrPanic ELSE Str(a.s \o b.s)

\* IdentExpr.String, IntLiteralExpr.String, PrefixExpr.String.  The call on
\* a nil Expression interface or a nil *IdentExpr dereferences nil.
RECURSIVE ExprString(_)
ExprString(expr) ==
    IF expr = Nil THEN StrPanic
    ELSE CASE expr.node = "IdentExpr" -> Str(expr.Value)
           [] expr.node = "IntLiteralExpr" -> Str(expr.Token.String)
           [] expr.node = "PrefixExpr" -> Cat(Str(expr.Operator), ExprString(expr.Expr))

LetStmtString(stmt) ==
    Cat(Cat(Cat(Cat(Str(stmt.Token.String \o <<" ">>), ExprString(stmt.Name)),
                Str(<<" ", "=", " ">>)),
            IF stmt.Value # Nil THEN ExprString(stmt.Value)
            ELSE Str(<<"<", "n", "i", "l", "-", "e", "x", "p", "r", ">">>)),
        Str(<<";">>))

ReturnStmtString(stmt) ==
    Cat(Cat(Str(stmt.Token.String \o <<" ">>),
            IF stmt.Value # Nil THEN ExprString(stmt.Value)
            ELSE Str(<<"<", "n", "i", "l", "-", "e", "x", "p", "r", "-",
                       "s", "t", "m", "t", ">">>)),
        Str(<<";">>))

ExprStmtString(stmt) ==
    IF stmt.Expr # Nil THEN Cat(ExprString(stmt.Expr), Str(<<";">>))
    ELSE Str(<<"<", "n", "i", "l", "-", "e", "x", "p", "r", "-",
               "s", "t", "m", "t", ">", ";">>)

StmtString(stmt) ==
    CASE stmt.node = "LetStmt" -> LetStmtString(stmt)
      [] stmt.node = "ReturnStmt" -> ReturnStmtString(stmt)
      [] stmt.node = "ExprStmt" -> ExprStmtString(stmt)

RECURSIVE StmtsString(_)
StmtsString(stmts) ==
    IF stmts = <<>> THEN Str(<<>>)
    ELSE Cat(Cat(StmtString(Head(stmts)), Str(<<NL>>)), StmtsString(Tail(stmts)))

\* Program.String
ProgramString(node) == StmtsString(node.Statements)

-----------------------------------------------------------------------------
(* Package parser.  The Parser is its Lexer and the two rule tables; a     *)
(* parsing method returns [l, val, err]: the Lexer after the call, the     *)
(* node or token returned and the error.  A run-time panic is an err of    *)
(* kind "panic", which every caller passes up.                             *)

LOWEST == 1
EQUALS == 2
LESSGREATER == 3
SUM == 4
PRODUCT == 5
PREFIX == 6

\* make([]prefixParseFn, lexer.MAXTOKTYPE) and the four rules New() enters.
prefixParseFns ==
    [t \in 0..(MAXTOKTYPE - 1) |->
        CASE t = IDENT -> "identExpr"
          [] t = INT -> "intLiteralExpr"
          [] t = SUB -> "prefixExpr"
          [] t = NOT -> "prefixExpr"
          [] OTHER -> "nil"]

\* make([]infixParseFn, lexer.MAXTOKTYPE): New() enters no rule.
infixParseFns == [t \in 0..(MAXTOKTYPE - 1) |-> "nil"]

IsPanic(err) == err # Nil /\ err.kind = "panic"
Panic(msg) == [kind |-> "panic", msg |-> msg]

parseErr(tok, err) == [kind |-> "parser.Error", Err |-> err, Tok |-> tok]

\* return nil, err: r is the failed call.
fail(r) == [l |-> r.l, val |-> Nil, err |-> r.err]

\* fmt.Errorf("expected '!' or '-' but found: %s", tok.String): the text
\* names '!' and '-' whatever expTypes holds.
requireTokMsg(expTypes, tok) ==
    [kind |-> "expected", expected |-> {NOT, SUB}, found |-> tok.String]

SeqRange(s) == {s[k] : k \in 1..Len(s)}

\* requireTok after p.lex.Next() returned n.
requireTokOf(n, expTypes) ==
    IF n.err # Nil THEN [l |-> n.l, val |-> Nil, err |-> n.err]
    ELSE IF n.tok.Type \in SeqRange(expTypes) THEN [l |-> n.l, val |-> n.tok, err |-> Nil]
    ELSE [l |-> n.l, val |-> Nil, err |-> parseErr(n.tok, requireTokMsg(expTypes, n.tok))]

requireTok(l, expTypes) == requireTokOf(LexerNext(l), expTypes)

\* An optionalTok that reports the token and leaves it in the input.
optionalTokKeeps(p, expType) ==
    IF p.err # Nil THEN [l |-> p.l, val |-> Nil, err |-> p.err]
    ELSE IF p.tok.Type # expType THEN [l |-> p.l, val |-> Nil, err |-> Nil]
    ELSE [l |-> p.l, val |-> p.tok, err |-> Nil]

\* optionalTok after p.lex.Peek() returned p.
optionalTokOf(p, expType) ==
    IF p.err # Nil THEN [l |-> p.l, val |-> Nil, err |-> p.err]
    ELSE IF p.tok.Type # expType THEN [l |-> p.l, val |-> Nil, err |-> Nil]
    ELSE [l |-> LexerNext(p.l).l, val |-> p.tok, err |-> Nil]

\* An optionalTok that takes the next token whatever its type.
optionalTokEager(l, expType) ==
    [l |-> LexerNext(l).l, val |-> LexerNext(l).tok, err |-> LexerNext(l).err]

optionalTok(l, expType) == optionalTokOf(LexerPeek(l), expType)

identExprOf(t) ==
    IF t.err # Nil THEN fail(t)
    ELSE [l |-> t.l, val |-> NewIdentExpr(t.val), err |-> Nil]

identExpr(l) == identExprOf(requireTok(l, <<IDENT>>))

intLiteralExprOf(t) ==
    IF t.err # Nil THEN fail(t)
    ELSE [l |-> t.l, val |-> NewIntLiteralExpr(t.val), err |-> Nil]

intLiteralExpr(l) == intLiteralExprOf(requireTok(l, <<INT>>))

RECURSIVE expr(_, _)

\* prefixExpr after p.expr(PREFIX) returned e.
prefixExprEnd(tok, e) ==
    IF e.err # Nil THEN fail(e)
    ELSE [l |-> e.l, val |-> NewPrefixExpr(tok, tok.String, e.val), err |-> Nil]

\* prefixExpr after p.requireTok(lexer.NOT, lexer.SUB) returned t.
prefixExprOf(t) ==
    IF t.err # Nil THEN fail(t)
    ELSE prefixExprEnd(t.val, expr(t.l, PREFIX))

prefixExpr(l) == prefixExprOf(requireTok(l, <<NOT, SUB>>))

\* exprFn() for the rule the table holds; no rule: return nil, nil.
callPrefixFn(exprFn, l) ==
    CASE exprFn = "nil" -> [l |-> l, val |-> Nil, err |-> Nil]
      [] exprFn = "identExpr" -> identExpr(l)
      [] exprFn = "intLiteralExpr" -> intLiteralExpr(l)
      [] exprFn = "prefixExpr" -> prefixExpr(l)

\* expr after p.lex.Peek() returned p: p.prefixParseFns[tok.Type] panics
\* when tok.Type is no index of the slice.
exprOf(p, pr) ==
    IF p.err # Nil THEN [l |-> p.l, val |-> Nil, err |-> p.err]
    ELSE IF p.tok.Type \notin DOMAIN prefixParseFns
    THEN [l |-> p.l, val |-> Nil, err |-> Panic("index out of range")]
    ELSE callPrefixFn(prefixParseFns[p.tok.Type], p.l)

expr(l, pr) == exprOf(LexerPeek(l), pr)

\* letStmt from p.optionalTok(lexer.SEMICOLON), which returned sc.
letStmtEnd(letTok, name, value, sc) ==
    IF sc.err # Nil THEN fail(sc)
    ELSE [l |-> sc.l, val |-> NewLetStmt(letTok, name, value), err |-> Nil]

\* letStmt from p.expr(LOWEST), which returned value.
letStmtSemi(letTok, name, value) ==
    IF value.err # Nil THEN fail(value)
    ELSE letStmtEnd(letTok, name, value.val, optionalTok(value.l, SEMICOLON))

\* letStmt from p.requireTok(lexer.ASSIGN), which returned assign.
letStmtValue(letTok, name, assign) ==
    IF assign.err # Nil THEN fail(assign)
    ELSE letStmtSemi(letTok, name, expr(assign.l, LOWEST))

\* letStmt from p.identExpr(), which returned name: its err is overwritten
\* by the next assignment without being read.
letStmtAssign(letTok, name) ==
    letStmtValue(letTok, name.val, requireTok(name.l, <<ASSIGN>>))

\* letStmt from p.requireTok(lexer.LET), which returned letTok.
letStmtName(letTok) ==
    IF letTok.err # Nil THEN fail(letTok)
    ELSE letStmtAssign(letTok.val, identExpr(letTok.l))

letStmt(l) == letStmtName(requireTok(l, <<KW_LET>>))

returnStmtEnd(returnTok, value, sc) ==
    IF sc.err # Nil THEN fail(sc)
    ELSE [l |-> sc.l, val |-> NewReturnStmt(returnTok, value), err |-> Nil]

returnStmtSemi(returnTok, value) ==
    IF value.err # Nil THEN fail(value)
    ELSE returnStmtEnd(returnTok, value.val, optionalTok(value.l, SEMICOLON))

returnStmtValue(returnTok) ==
    IF returnTok.err # Nil THEN fail(returnTok)
    ELSE returnStmtSemi(returnTok.val, expr(returnTok.l, LOWEST))

returnStmt(l) == returnStmtValue(requireTok(l, <<RETURN>>))

exprStmtEnd(tok, e, sc) ==
    IF sc.err # Nil THEN fail(sc)
    ELSE [l |-> sc.l, val |-> NewExprStmt(tok, e), err |-> Nil]

exprStmtSemi(tok, e) ==
    IF e.err # Nil THEN fail(e)
    ELSE exprStmtEnd(tok, e.val, optionalTok(e.l, SEMICOLON))

exprStmtOf(p) ==
    IF p.err # Nil THEN [l |-> p.l, val |-> Nil, err |-> parseErr(p.tok, p.err)]
    ELSE exprStmtSemi(p.tok, expr(p.l, LOWEST))

exprStmt(l) == exprStmtOf(LexerPeek(l))

-----------------------------------------------------------------------------
(* Spec: parser.Parse(code) on a source text, one step per iteration of    *)
(* the loop of Parser.Parse, then Program.String() of the Program returned *)
(* and Parse again on that text.                                           *)

Vocab ==
    {<<"l", "e", "t", " ">>, <<"r", "e", "t", "u", "r", "n", " ">>, <<"x", " ">>,
     <<"5">>, <<"=">>, <<";">>, <<"-">>, <<"!">>, <<"+">>, <<"@">>}

BoundedSeq(S, n) == UNION {[1..k -> S] : k \in 0..n}

RECURSIVE Flatten(_)
Flatten(ws) == IF ws = <<>> THEN <<>> ELSE Head(ws) \o Flatten(Tail(ws))

\* No run of Parse that returns goes through more iterations than this:
\* every word holds at most one token.
MaxStmts == MaxWords + 2

ApiIdle ==
    /\ lastOp = "none"
    /\ lastTok = Nil
    /\ lastErr = Nil
    /\ lastOff = 0
    /\ fresh = FALSE
    /\ prevOp = "none"
    /\ prevTok = Nil

\* No REPL has been made.
ReplIdle ==
    /\ stdin = Nil
    /\ stdout = Nil
    /\ stop = "nil"
    /\ done = "nil"
    /\ loopPc = "none"
    /\ evalPc = "none"
    /\ ch = Nil
    /\ result = Nil
    /\ cancelPc = "none"

\* Parse(code): lexer.New("", strings.NewReader(code)), New(l), p.Parse().
Init ==
    /\ words \in BoundedSeq(Vocab, MaxWords)
    /\ input = Flatten(words)
    /\ lex = New("", input)
    /\ prog = NewProgram.Statements
    /\ status = "run"
    /\ retProg = Nil
    /\ retErr = Nil
    /\ pass = 1
    /\ prog1 = Nil
    /\ ApiIdle
    /\ ReplIdle

\* A Parse that returns the Program built so far along with the error.
ReturnErrWithPartial(l, err) ==
    /\ lex' = l
    /\ status' = "error"
    /\ retProg' = [Statements |-> prog]
    /\ retErr' = err
    /\ UNCHANGED <<replVars, words, input, prog, pass, prog1, apiVars>>

\* return nil, err
ReturnErr(l, err) ==
    /\ lex' = l
    /\ status' = "error"
    /\ retProg' = Nil
    /\ retErr' = err
    /\ UNCHANGED <<replVars, words, input, prog, pass, prog1, apiVars>>

\* return prog, nil
ReturnProg(l) ==
    /\ lex' = l
    /\ status' = "done"
    /\ retProg' = [Statements |-> prog]
    /\ retErr' = Nil
    /\ UNCHANGED <<replVars, words, input, prog, pass, prog1, apiVars>>

\* What Parse does with the (stmt, err) a statement method returned: r.
AfterStmt(r) ==
    IF IsPanic(r.err)
    THEN /\ lex' = r.l
         /\ status' = "panic"
         /\ UNCHANGED <<replVars, words, input, prog, retProg, retErr, pass, prog1, apiVars>>
    ELSE IF r.err # Nil THEN ReturnErr(r.l, r.err)
    ELSE /\ lex' = r.l
         /\ prog' = IF r.val # Nil THEN Append(prog, r.val) ELSE prog
         /\ UNCHANGED <<replVars, words, input, status, retProg, retErr, pass, prog1, apiVars>>

Running == status = "run" /\ Len(prog) < MaxStmts

\* The iterations of the loop of Parse, by what p.lex.Peek() returned (p).
PeekErrOf(p) == p.err # Nil /\ ReturnErr(p.l, p.err)
LetOf(p) == p.err = Nil /\ p.tok.Type = KW_LET /\ AfterStmt(letStmt(p.l))
ReturnOf(p) == p.err = Nil /\ p.tok.Type = RETURN /\ AfterStmt(returnStmt(p.l))
EOFOf(p) == p.err = Nil /\ p.tok.Type = EOF /\ ReturnProg(p.l)
ExprOf(p) ==
    p.err = Nil /\ p.tok.Type \notin {KW_LET, RETURN, EOF} /\ AfterStmt(exprStmt(p.l))

ParsePeekErr == Running /\ PeekErrOf(LexerPeek(lex))
ParseLet == Running /\ LetOf(LexerPeek(lex))
ParseReturn == Running /\ ReturnOf(LexerPeek(lex))
ParseEOF == Running /\ EOFOf(LexerPeek(lex))
ParseExpr == Running /\ ExprOf(LexerPeek(lex))

\* Parse(s.s) when prog.String() returned s, and nothing when it panicked.
RenderOf(s) ==
    /\ IF s.panic
       THEN /\ status' = "strpanic"
            /\ UNCHANGED <<input, lex, prog, retProg, retErr, pass, prog1>>
       ELSE /\ input' = s.s
            /\ lex' = New("", s.s)
            /\ prog' = NewProgram.Statements
            /\ status' = "run"
            /\ retProg' = Nil
            /\ retErr' = Nil
            /\ pass' = 2
            /\ prog1' = retProg
    /\ UNCHANGED <<replVars, words, apiVars>>

\* prog.String() of the Program pass 1 returned, and Parse of that text.
Render ==
    /\ pass = 1
    /\ status = "done"
    /\ RenderOf(ProgramString(retProg))

Next ==
    \/ ParsePeekErr
    \/ ParseLet
    \/ ParseReturn
    \/ ParseEOF
    \/ ParseExpr
    \/ Render

Spec == Init /\ [][Next]_vars

-----------------------------------------------------------------------------
(* LexSpec: a caller of the Lexer making Next and Peek calls in any order. *)

Alphabet == {"a", DIU, "5", " ", NL, "=", NUL, "@"}

LexInit ==
    /\ words = <<>>
    /\ input \in BoundedSeq(Alphabet, MaxRunes)
    /\ lex = New("f.mky", input)
    /\ prog = <<>>
    /\ status = "api"
    /\ retProg = Nil
    /\ retErr = Nil
    /\ pass = 1
    /\ prog1 = Nil
    /\ ApiIdle
    /\ ReplIdle

\* The index in l.src of the first rune of the token a call of readTok on l
\* scans (0 at EOF).
TokOff(l) == readTok(l).off

\* The caller's record of a call that returned res on the Lexer lex.
Called(op, res) ==
    /\ lex' = res.l
    /\ lastOp' = op
    /\ lastTok' = res.tok
    /\ lastErr' = res.err
    /\ fresh' = (lex.nxttok = Nil)
    /\ lastOff' = IF lex.nxttok = Nil THEN TokOff(lex) ELSE lastOff
    /\ prevOp' = lastOp
    /\ prevTok' = lastTok
    /\ UNCHANGED <<replVars, words, input, parseVars>>

CallNext == status = "api" /\ Called("Next", LexerNext(lex))

CallPeek == status = "api" /\ Called("Peek", LexerPeek(lex))

LexNext == CallNext \/ CallPeek

LexSpec == LexInit /\ [][LexNext]_vars

-----------------------------------------------------------------------------
(* WfSpec: parser.Parse(code) on the sources made of well-formed           *)
(* statements: `let x = E`, `return E` or `E`, each ended by ';' or by a   *)
(* newline, E an identifier or an integer literal under a chain of prefix  *)
(* operators.                                                              *)

MaxWfStmts == 2

WfKinds == {"let", "return", "expr"}
WfOps == {<<>>, <<"-">>, <<"!", "-">>}
WfOperands == {<<"l", "e", "t", "s">>, <<"0", "7">>}
WfEnds == {<<";">>, <<NL>>}

WfStmts == [kind : WfKinds, ops : WfOps, operand : WfOperands, end : WfEnds]

WfHead(kind) ==
    CASE kind = "let" -> <<"l", "e", "t", " ", "x", " ", "=", " ">>
      [] kind = "return" -> <<"r", "e", "t", "u", "r", "n", " ">>
      [] kind = "expr" -> <<>>

WfText(w) == WfHead(w.kind) \o w.ops \o w.operand \o w.end

WfInit ==
    /\ words \in BoundedSeq(WfStmts, MaxWfStmts)
    /\ input = Flatten([k \in 1..Len(words) |-> WfText(words[k])])
    /\ lex = New("", input)
    /\ prog = NewProgram.Statements
    /\ status = "run"
    /\ retProg = Nil
    /\ retErr = Nil
    /\ pass = 1
    /\ prog1 = Nil
    /\ ApiIdle
    /\ ReplIdle

WfNext ==
    \/ ParseLet
    \/ ParseReturn
    \/ ParseEOF
    \/ ParseExpr

WfSpec == WfInit /\ [][WfNext]_vars

-----------------------------------------------------------------------------
(* OpSpec: a caller of the Lexer making Next and Peek calls in any order   *)
(* on a source of operator and delimiter runes, among them the source of   *)
(* TestLexer_Operators.                                                    *)

MaxOpRunes == 3

OpAlphabet ==
    {";", "+", "-", "*", "/", "<", ">", "(", ")", "{", "}", "[", "]", ",",
     "=", "!", "a", " ", NUL}

OperatorsSource == <<"=", "+", "-", "*", "/", "!", "<", ">">>

OpInit ==
    /\ words = <<>>
    /\ input \in BoundedSeq(OpAlphabet, MaxOpRunes) \cup {OperatorsSource}
    /\ lex = New("f.mky", input)
    /\ prog = <<>>
    /\ status = "api"
    /\ retProg = Nil
    /\ retErr = Nil
    /\ pass = 1
    /\ prog1 = Nil
    /\ ApiIdle
    /\ ReplIdle

OpNext == CallNext \/ CallPeek

OpSpec == OpInit /\ [][OpNext]_vars

-----------------------------------------------------------------------------
(* IntSpec: a caller of the Lexer making Next and Peek calls in any order  *)
(* on a source that holds a run of digit runes: literals int64 can hold,   *)
(* literals it cannot, and runs with a digit rune that is not '0'..'9'.    *)

IntLiterals ==
    {<<"0">>, <<"5">>, <<"0", "0", "7">>,
     <<"2", "1", "4", "7", "4", "8", "3", "6", "4", "7">>,
     <<"9", "2", "2", "3", "3", "7", "2", "0", "3", "6", "8", "5", "4", "7", "7", "5", "8", "0", "8">>,
     <<"0", "9", "9", "9", "9", "9", "9", "9", "9", "9", "9", "9", "9", "9", "9", "9", "9", "9", "9", "9">>,
     <<ARABIC3>>, <<"5", ARABIC3>>}

IntBefore == {<<>>, <<"a", NL>>, <<"=", " ">>}
IntAfter == {<<>>, <<";">>, <<" ", "5">>, <<"a">>}

IntInit ==
    /\ words = <<>>
    /\ \E b \in IntBefore, lit \in IntLiterals, a \in IntAfter : input = b \o lit \o a
    /\ lex = New("f.mky", input)
    /\ prog = <<>>
    /\ status = "api"
    /\ retProg = Nil
    /\ retErr = Nil
    /\ pass = 1
    /\ prog1 = Nil
    /\ ApiIdle
    /\ ReplIdle

IntNext == CallNext \/ CallPeek

IntSpec == IntInit /\ [][IntNext]_vars

-----------------------------------------------------------------------------
(* What an error tells of the place it is about: the file name, line and   *)
(* column its Error() method formats.                                      *)

\* (*lexer.Error).Error: "%s|%d col %d| %s" of e.File, e.Line, e.Col, e.Err.
lexerErrorPos(e) == [File |-> e.File, Line |-> e.Line, Col |-> e.Col]

\* (*parser.Error).Error: the same of e.Tok, "<no-file>" for no file name.
parserErrorPos(e) ==
    [File |-> IF e.Tok.File = "" THEN "<no-file>" ELSE e.Tok.File,
     Line |-> e.Tok.Line, Col |-> e.Tok.Col]

-----------------------------------------------------------------------------
(* CanonSpec: parser.Parse(code) and then prog.String() on the sources of  *)
(* the parser tests: `let x = 5;`, `return 5;`, and lines of expression    *)
(* statements, each followed by a newline.                                 *)

MaxCanonLines == 3

LetSource == <<"l", "e", "t", " ", "x", " ", "=", " ", "5", ";">>
ReturnSource == <<"r", "e", "t", "u", "r", "n", " ", "5", ";">>
ExprLines ==
    {<<"f", "o", "o", ";", NL>>, <<"5", ";", NL>>,
     <<"-", "b", "a", "r", ";", NL>>, <<"!", "b", "a", "z", ";", NL>>}

CanonInit ==
    /\ words \in {<<LetSource>>, <<ReturnSource>>} \cup BoundedSeq(ExprLines, MaxCanonLines)
    /\ input = Flatten(words)
    /\ lex = New("", input)
    /\ prog = NewProgram.Statements
    /\ status = "run"
    /\ retProg = Nil
    /\ retErr = Nil
    /\ pass = 1
    /\ prog1 = Nil
    /\ ApiIdle
    /\ ReplIdle

CanonNext ==
    \/ ParseLet
    \/ ParseReturn
    \/ ParseEOF
    \/ ParseExpr
    \/ Render

CanonSpec == CanonInit /\ [][CanonNext]_vars

-----------------------------------------------------------------------------
(* SemiSpec: parser.Parse(code) on a source of well-formed statements,     *)
(* each with or without its ';' and followed by a space, and then          *)
(* parser.Parse on the source that has the ';' of a statement exactly      *)
(* where the first has not.                                                *)

MaxSemiStmts == 2

SemiStmts == [kind : WfKinds, ops : {<<>>, <<"-">>}, operand : WfOperands, semi : BOOLEAN]

SemiText(w, semi) ==
    WfHead(w.kind) \o w.ops \o w.operand \o (IF semi THEN <<";">> ELSE <<>>) \o <<" ">>

SemiInit ==
    /\ words \in BoundedSeq(SemiStmts, MaxSemiStmts)
    /\ input = Flatten([k \in 1..Len(words) |-> SemiText(words[k], words[k].semi)])
    /\ lex = New("", input)
    /\ prog = NewProgram.Statements
    /\ status = "run"
    /\ retProg = Nil
    /\ retErr = Nil
    /\ pass = 1
    /\ prog1 = Nil
    /\ ApiIdle
    /\ ReplIdle

\* Parse of the other source, once Parse of the first has returned a Program.
ParseToggled ==
    /\ pass = 1
    /\ status = "done"
    /\ input' = Flatten([k \in 1..Len(words) |-> SemiText(words[k], ~words[k].semi)])
    /\ lex' = New("", input')
    /\ prog' = NewProgram.Statements
    /\ status' = "run"
    /\ retProg' = Nil
    /\ retErr' = Nil
    /\ pass' = 2
    /\ prog1' = retProg
    /\ UNCHANGED <<replVars, words, apiVars>>

SemiNext ==
    \/ ParseLet
    \/ ParseReturn
    \/ ParseEOF
    \/ ParseExpr
    \/ ParseToggled

SemiSpec == SemiInit /\ [][SemiNext]_vars

-----------------------------------------------------------------------------
(* FileSpec: parser.ParseFile(filename) on a file that cannot be opened or *)
(* that holds at most MaxFileWords words of Vocab.                         *)

MaxFileWords == 3

FileInit ==
    /\ words \in BoundedSeq(Vocab, MaxFileWords)
    /\ input = Flatten(words)
    /\ lex = Nil
    /\ prog = NewProgram.Statements
    /\ status = "open"
    /\ retProg = Nil
    /\ retErr = Nil
    /\ pass = 1
    /\ prog1 = Nil
    /\ ApiIdle
    /\ ReplIdle

\* Open(filename) returned an error: ParseFile returns nil, err.
OpenFails ==
    /\ status = "open"
    /\ status' = "error"
    /\ retErr' = [kind |-> "os.PathError"]
    /\ UNCHANGED <<replVars, words, input, lex, prog, retProg, pass, prog1, apiVars>>

\* Open(filename) returned a Parser on the Lexer of the file: p.Parse().
OpenFile ==
    /\ status = "open"
    /\ lex' = LexerOpen("f.mky", input)
    /\ status' = "run"
    /\ UNCHANGED <<replVars, words, input, prog, retProg, retErr, pass, prog1, apiVars>>

FileNext ==
    \/ OpenFails
    \/ OpenFile
    \/ ParsePeekErr
    \/ ParseLet
    \/ ParseReturn
    \/ ParseEOF
    \/ ParseExpr

FileSpec == FileInit /\ [][FileNext]_vars

-----------------------------------------------------------------------------
(* KwSpec: parser.Parse(code) on a source of at most MaxKwWords words that *)
(* hold every keyword of the lexer, an identifier, an integer and the      *)
(* prefix operators.                                                       *)

MaxKwWords == 3

KwVocab ==
    {<<"t", "r", "u", "e", " ">>, <<"f", "a", "l", "s", "e", " ">>, <<"f", "n", " ">>,
     <<"i", "f", " ">>, <<"e", "l", "s", "e", " ">>, <<"l", "e", "t", " ">>,
     <<"r", "e", "t", "u", "r", "n", " ">>, <<"x", " ">>, <<"5", " ">>,
     <<"-">>, <<"!">>, <<"=">>, <<";">>}

KwInit ==
    /\ words \in BoundedSeq(KwVocab, MaxKwWords)
    /\ input = Flatten(words)
    /\ lex = New("", input)
    /\ prog = NewProgram.Statements
    /\ status = "run"
    /\ retProg = Nil
    /\ retErr = Nil
    /\ pass = 1
    /\ prog1 = Nil
    /\ ApiIdle
    /\ ReplIdle

KwNext ==
    \/ ParseLet
    \/ ParseReturn
    \/ ParseEOF
    \/ ParseExpr

KwSpec == KwInit /\ [][KwNext]_vars

-----------------------------------------------------------------------------
(* ReplSpec: a REPL made by repl.New(stdin, stdout, stderr), its Start()   *)
(* and the cancel() that Start returned, with the goroutines of loop and   *)
(* of eval, and around them the writer of stdin and the reader of stdout.  *)
(* words holds the lines the writer of stdin has to type, input the line   *)
(* read (code) and lex the Lexer of the goroutine of eval.  stdout is a    *)
(* "buffer", where a Write returns at once, or a "pipe", where a Write     *)
(* returns when the reader has taken the text.                             *)

MaxReplLines == 2

ReplLines == {<<";", NL>>, <<"@", NL>>}

ReplInit ==
    /\ words \in BoundedSeq(ReplLines, MaxReplLines)
    /\ input = <<>>
    /\ lex = Nil
    /\ prog = <<>>
    /\ status = "repl"
    /\ retProg = Nil
    /\ retErr = Nil
    /\ pass = 1
    /\ prog1 = Nil
    /\ lastOp = "none"
    /\ lastTok = Nil
    /\ lastErr = Nil
    /\ lastOff = 0
    /\ fresh = FALSE
    /\ prevOp = "none"
    /\ prevTok = Nil
    /\ stdin = [typed |-> 0, taken |-> 0, state |-> "open"]
    /\ stdout \in [kind : {"buffer", "pipe"}, last : {Nil}]
    /\ stop = "nil"
    /\ done = "nil"
    /\ loopPc = "none"
    /\ evalPc = "none"
    /\ ch = Nil
    /\ result = Nil
    /\ cancelPc = "none"

replFrame == <<words, prog, status, retProg, retErr, pass, prog1, apiVars>>

\* Start: the channels are made and the goroutine of loop is started.
Start ==
    /\ status = "repl"
    /\ loopPc = "none"
    /\ stop' = "open"
    /\ done' = "open"
    /\ loopPc' = "select"
    /\ UNCHANGED <<replFrame, input, lex, stdin, stdout, evalPc, ch, result, cancelPc>>

\* cancel(): close(stop), then the caller waits at <-done.
Cancel ==
    /\ loopPc # "none"
    /\ cancelPc = "none"
    /\ stop' = "closed"
    /\ cancelPc' = "waiting"
    /\ UNCHANGED <<replFrame, input, lex, stdin, stdout, done, loopPc, evalPc, ch, result>>

\* cancel(): <-done returns once done is closed.
CancelReturn ==
    /\ cancelPc = "waiting"
    /\ done = "closed"
    /\ cancelPc' = "returned"
    /\ UNCHANGED <<replFrame, input, lex, stdin, stdout, stop, done, loopPc, evalPc, ch, result>>

\* loop returns: the deferred close(done) runs.
loopReturn ==
    /\ loopPc' = "returned"
    /\ done' = "closed"

\* loop: the select at the head of an iteration.
LoopSelect ==
    /\ loopPc = "select"
    /\ IF stop = "closed" THEN loopReturn
       ELSE loopPc' = "prompt" /\ UNCHANGED done
    /\ UNCHANGED <<replFrame, input, lex, stdin, stdout, stop, evalPc, ch, result, cancelPc>>

\* What the loop writes to r.stdout where it is, and where it goes on.
WriteText == IF loopPc = "prompt" THEN [kind |-> "prompt", text |-> ">> "] ELSE result
AfterWrite ==
    CASE loopPc = "prompt" -> "read"
      [] loopPc = "printErr" -> "select"
      [] loopPc = "print" -> "range"

\* A Write to r.stdout returns.
written ==
    /\ loopPc \in {"prompt", "printErr", "print"}
    /\ stdout' = [stdout EXCEPT !.last = WriteText]
    /\ loopPc' = AfterWrite
    /\ UNCHANGED <<replFrame, input, lex, stdin, stop, done, evalPc, ch, result, cancelPc>>

\* loop: fmt.Fprint(r.stdout, r.prompt) of read and the two fmt.Fprintln,
\* on a stdout that takes the text at once.
LoopWrite == stdout # Nil /\ stdout.kind = "buffer" /\ written

\* The reader of a stdout pipe takes the text the loop is writing.
DrainStdout == stdout # Nil /\ stdout.kind = "pipe" /\ written

\* loop: ReadString('\n') of read returns, with a line, with io.EOF or with
\* another error; it does not return while stdin is open and holds no line.
LoopRead ==
    /\ loopPc = "read"
    /\ IF stdin.taken < stdin.typed
       THEN /\ input' = words[stdin.taken + 1]
            /\ stdin' = [stdin EXCEPT !.taken = @ + 1]
            /\ loopPc' = "eval"
            /\ UNCHANGED <<done, result>>
       ELSE /\ stdin.state # "open"
            /\ IF stdin.state = "closed"
               THEN loopReturn /\ UNCHANGED result
               ELSE /\ loopPc' = "printErr"
                    /\ result' = [tok |-> Nil, err |-> [kind |-> "error", msg |-> "read error"]]
                    /\ UNCHANGED done
            /\ UNCHANGED <<input, stdin>>
    /\ UNCHANGED <<replFrame, lex, stdout, stop, evalPc, ch, cancelPc>>

\* loop: r.eval(code, stop) makes ch and starts the goroutine, which makes
\* its Lexer.
LoopEval ==
    /\ loopPc = "eval"
    /\ lex' = New("", input)
    /\ evalPc' = "next"
    /\ ch' = Nil
    /\ loopPc' = "range"
    /\ UNCHANGED <<replFrame, input, stdin, stdout, stop, done, result, cancelPc>>

\* eval: the select, which does nothing whether stop is closed or not, and
\* lex.Next(); the goroutine then sends the token or the error on ch.
EvalNext ==
    /\ evalPc = "next"
    /\ lex' = LexerNext(lex).l
    /\ ch' = [tok |-> LexerNext(lex).tok, err |-> LexerNext(lex).err]
    /\ evalPc' = "send"
    /\ UNCHANGED <<replFrame, input, stdin, stdout, stop, done, loopPc, result, cancelPc>>

\* The send on ch of eval meets the receive of `range results` of loop;
\* after an error or the EOF token the goroutine returns and closes ch.
Receive ==
    /\ loopPc = "range"
    /\ evalPc = "send"
    /\ result' = ch
    /\ ch' = Nil
    /\ loopPc' = "print"
    /\ evalPc' = IF ch.err # Nil \/ ch.tok.Type = EOF THEN "closed" ELSE "next"
    /\ UNCHANGED <<replFrame, input, lex, stdin, stdout, stop, done, cancelPc>>

\* loop: `range results` ends when ch is closed.
LoopRangeEnd ==
    /\ loopPc = "range"
    /\ evalPc = "closed"
    /\ loopPc' = "select"
    /\ evalPc' = "none"
    /\ UNCHANGED <<replFrame, input, lex, stdin, stdout, stop, done, ch, result, cancelPc>>

\* The writer of stdin types the next line, closes stdin, or stdin fails.
TypeLine ==
    /\ stdin # Nil
    /\ stdin.state = "open"
    /\ stdin.typed < Len(words)
    /\ stdin' = [stdin EXCEPT !.typed = @ + 1]
    /\ UNCHANGED <<replFrame, input, lex, stdout, stop, done, loopPc, evalPc, ch, result, cancelPc>>

EndStdin ==
    /\ stdin # Nil
    /\ stdin.state = "open"
    /\ stdin.typed = Len(words)
    /\ \E s \in {"closed", "broken"} : stdin' = [stdin EXCEPT !.state = s]
    /\ UNCHANGED <<replFrame, input, lex, stdout, stop, done, loopPc, evalPc, ch, result, cancelPc>>

\* The steps of the goroutine of loop.
LoopStep == LoopSelect \/ LoopWrite \/ LoopRead \/ LoopEval \/ LoopRangeEnd

ReplNext ==
    \/ Start
    \/ Cancel
    \/ CancelReturn
    \/ LoopSelect
    \/ LoopWrite
    \/ LoopRead
    \/ LoopEval
    \/ LoopRangeEnd
    \/ EvalNext
    \/ Receive
    \/ TypeLine
    \/ EndStdin
    \/ DrainStdout

ReplSpec == ReplInit /\ [][ReplNext]_vars

\* The Go scheduler runs every goroutine that can take a step; nothing
\* makes the writer of stdin or the reader of stdout act, nor the caller
\* call cancel().
ReplFairSpec ==
    /\ ReplSpec
    /\ WF_vars(Start)
    /\ WF_vars(LoopStep)
    /\ WF_vars(EvalNext)
    /\ WF_vars(Receive)
    /\ WF_vars(CancelReturn)

-----------------------------------------------------------------------------
(* What the claims speak of.                                               *)

\* The structure of a node: its kind, names, operators and literal values,
\* without the tokens (and so without source positions).
RECURSIVE ShapeExpr(_)
ShapeExpr(e) ==
    IF e = Nil THEN Nil
    ELSE CASE e.node = "IdentExpr" -> [node |-> "IdentExpr", Value |-> e.Value]
           [] e.node = "IntLiteralExpr" -> [node |-> "IntLiteralExpr", Value |-> e.Value]
           [] e.node = "PrefixExpr" ->
                [node |-> "PrefixExpr", Operator |-> e.Operator, Expr |-> ShapeExpr(e.Expr)]

ShapeStmt(st) ==
    CASE st.node = "LetStmt" ->
           [node |-> "LetStmt", Name |-> ShapeExpr(st.Name), Value |-> ShapeExpr(st.Value)]
      [] st.node = "ReturnStmt" -> [node |-> "ReturnStmt", Value |-> ShapeExpr(st.Value)]
      [] st.node = "ExprStmt" -> [node |-> "ExprStmt", Expr |-> ShapeExpr(st.Expr)]

ShapeSeq(stmts) == [k \in 1..Len(stmts) |-> ShapeStmt(stmts[k])]

IsPrefixOf(a, b) == Len(a) <= Len(b) /\ \A k \in 1..Len(a) : a[k] = b[k]

\* The result of the k-th Next() on a Lexer l: [l, tok, err].
RECURSIVE NthNext(_, _)
NthNext(l, k) == IF k <= 1 THEN LexerNext(l) ELSE NthNext(LexerNext(l).l, k - 1)

\* The first n tokens of the source text of pass 1 lex without error, and
\* their types are those of the sequence types.
StartsWith(types) ==
    /\ pass = 1
    /\ \A k \in 1..Len(types) :
          /\ NthNext(New("", input), k).err = Nil
          /\ NthNext(New("", input), k).tok.Type \in types[k]

\* The k-th token of the source text.
SrcTok(k) == NthNext(New("", input), k).tok

Returned == status \in {"done", "error"}

-----------------------------------------------------------------------------
(* C9: whenever Parse returns an error it returns no Program, however many *)
(* statements it had parsed before, and the error ends the parse: no       *)
(* further iteration of the loop runs.                                     *)
C9_ErrorReturnsNoProgram ==
    status = "error" => retProg = Nil /\ retErr # Nil /\ ~ENABLED Next

\* Parse has returned a parse error after it had parsed two statements.
C9_Witness ==
    /\ status = "error"
    /\ Len(prog) = 2
    /\ prog[1].node = "ExprStmt" /\ prog[1].Expr # Nil
    /\ prog[2].node = "ExprStmt" /\ prog[2].Expr # Nil
    /\ retProg = Nil
    /\ retErr.kind = "parser.Error"

-----------------------------------------------------------------------------
(* C2: when a Peek() has returned a token, the call that follows it, be it *)
(* a Peek() or the Next(), returns that same token value (kind, file,      *)
(* line, column, lexeme, integer value) and no error: consecutive Peek()   *)
(* calls all return the same token and the Next() after them returns it.   *)
C2_PeekThenSameToken ==
    (prevOp = "Peek" /\ prevTok # Nil /\ lastOp \in {"Peek", "Next"}) =>
        (lastErr = Nil /\ lastTok = prevTok)

\* A Next() has returned the identifier token the Peek() before it returned,
\* with input left behind it.
C2_Witness ==
    /\ prevOp = "Peek"
    /\ lastOp = "Next"
    /\ lastTok # Nil
    /\ lastTok = prevTok
    /\ lastTok.Type = IDENT
    /\ lex.rpos < Len(input)

-----------------------------------------------------------------------------
(* C10: the line and the column of every token with a lexeme are those of  *)
(* the first rune of its lexeme in the source text, the column counting    *)
(* runes from 1 on each line and every newline starting a line.            *)

\* The line of the k-th rune of s: one more than the newlines before it.
LineOf(s, k) == 1 + Cardinality({j \in 1..(k - 1) : s[j] = NL})

\* The column of the k-th rune of s: the runes since the last newline.
ColOf(s, k) ==
    LET nls == {j \in 1..(k - 1) : s[j] = NL}
    IN IF nls = {} THEN k ELSE k - CHOOSE j \in nls : \A i \in nls : i <= j

C10_TokenPosition ==
    (status = "api" /\ fresh /\ lastErr = Nil /\ lastTok # Nil /\ lastTok.Type # EOF) =>
        /\ lastTok.Line = LineOf(input, lastOff)
        /\ lastTok.Col = ColOf(input, lastOff)

-----------------------------------------------------------------------------
(* C1: for every Program p that Parse returns, p.String() is a text that   *)
(* Parse accepts, and the Program Parse returns for it has the structure   *)
(* of p: the same statements, names, operators and literal values, in the  *)
(* same order (source positions aside).                                    *)
C1_RoundTrip ==
    /\ status # "strpanic"
    /\ pass = 2 =>
          /\ status \notin {"error", "panic"}
          /\ IsPrefixOf(ShapeSeq(prog), ShapeSeq(prog1.Statements))
          /\ status = "done" => ShapeSeq(retProg.Statements) = ShapeSeq(prog1.Statements)

-----------------------------------------------------------------------------
(* C5: when the token after `let <identifier>` is not '=', as in           *)
(* `let x 5;`, Parse returns no Program and a parse error that carries     *)
(* that token, with a message that names '=' as the token expected and     *)
(* that token's lexeme as the one found.                                   *)
C5_LetWithoutAssign ==
    (/\ StartsWith(<<{KW_LET}, {IDENT}, {INT, IDENT, SEMICOLON, SUB, NOT, ADD}>>)
     /\ status # "run") =>
        /\ status = "error"
        /\ retProg = Nil
        /\ retErr.kind = "parser.Error"
        /\ retErr.Tok = SrcTok(3)
        /\ retErr.Err.kind = "expected"
        /\ ASSIGN \in retErr.Err.expected
        /\ retErr.Err.found = SrcTok(3).String

-----------------------------------------------------------------------------
(* C6: when the token after `let` is not an identifier, as in             *)
(* `let 5 = 3;`, Parse returns no Program and an expected-token parse      *)
(* error that carries that token; it never returns a Program with that     *)
(* let statement.                                                          *)
C6_LetWithoutName ==
    (/\ StartsWith(<<{KW_LET}, {INT, ASSIGN, SEMICOLON, SUB, NOT, ADD, KW_LET, RETURN}>>)
     /\ status # "run") =>
        /\ status = "error"
        /\ retProg = Nil
        /\ retErr.kind = "parser.Error"
        /\ retErr.Tok = SrcTok(2)
        /\ retErr.Err.kind = "expected"
        /\ retErr.Err.found = SrcTok(2).String

-----------------------------------------------------------------------------
(* C7: when the token in expression position has no prefix rule (here '=', *)
(* ';' or '+' at the start of a statement; those and `let`, `return` after *)
(* `return`, after a prefix operator or after `let <identifier> =`), Parse *)
(* accepts no statement and returns no Program but a parse error that      *)
(* carries that token and says it has no prefix rule.                      *)

\* Token types without a prefix rule that may start a statement, and that
\* may stand where a statement has begun.
NoPrefixRuleFirst == {ASSIGN, SEMICOLON, ADD}
NoPrefixRuleInner == NoPrefixRuleFirst \cup {KW_LET, RETURN}

\* The index of the token in expression position that has no prefix rule,
\* 0 when the source does not begin in one of these ways.
NoPrefixRuleAt ==
    IF StartsWith(<<NoPrefixRuleFirst>>) THEN 1
    ELSE IF StartsWith(<<{RETURN, SUB, NOT}, NoPrefixRuleInner>>) THEN 2
    ELSE IF StartsWith(<<{KW_LET}, {IDENT}, {ASSIGN}, NoPrefixRuleInner>>) THEN 4
    ELSE 0

C7_NoPrefixRule ==
    NoPrefixRuleAt > 0 =>
        /\ prog = <<>>
        /\ status # "run" =>
              /\ status = "error"
              /\ retProg = Nil
              /\ retErr.kind = "parser.Error"
              /\ retErr.Tok = SrcTok(NoPrefixRuleAt)
              /\ retErr.Err.kind = "no prefix rule"

-----------------------------------------------------------------------------
(* C8: when the source ends where an expression or a required token is     *)
(* still expected (`let x =`, `return`, `-`, `!`, `let x`), Parse accepts  *)
(* no statement and returns no Program but an error of its own kind, not   *)
(* the expected-token error.                                               *)

PrematureEOF ==
    \/ StartsWith(<<{KW_LET}, {IDENT}, {ASSIGN}, {EOF}>>)
    \/ StartsWith(<<{KW_LET}, {IDENT}, {EOF}>>)
    \/ StartsWith(<<{RETURN, SUB, NOT}, {EOF}>>)

C8_PrematureEOF ==
    PrematureEOF =>
        /\ prog = <<>>
        /\ status # "run" =>
              /\ status = "error"
              /\ retProg = Nil
              /\ retErr # Nil
              /\ retErr.Err.kind # "expected"

-----------------------------------------------------------------------------
(* C4: an expression `a op b` with a binary operator ('+' or '-') between  *)
(* two operands, each an identifier or an integer literal and the first    *)
(* possibly under a prefix '-' or '!', parses to one expression statement  *)
(* holding an InfixExpr of that operator whose left side is the first      *)
(* operand with its prefix operator, so that `-a+b` is `(-a)+b`.           *)

OperandShape(tok) ==
    IF tok.Type = IDENT THEN [node |-> "IdentExpr", Value |-> tok.String]
    ELSE [node |-> "IntLiteralExpr", Value |-> tok.Int]

InfixShape(op, left, right) ==
    [node |-> "InfixExpr", Operator |-> op, Left |-> left, Right |-> right]

\* The tree the source is to parse to, Nil when it is not such a source.
InfixExpected ==
    IF StartsWith(<<{IDENT, INT}, {ADD, SUB}, {IDENT, INT}, {EOF}>>)
    THEN InfixShape(SrcTok(2).String, OperandShape(SrcTok(1)), OperandShape(SrcTok(3)))
    ELSE IF StartsWith(<<{SUB, NOT}, {IDENT, INT}, {ADD, SUB}, {IDENT, INT}, {EOF}>>)
    THEN InfixShape(SrcTok(3).String,
                    [node |-> "PrefixExpr", Operator |-> SrcTok(1).String,
                     Expr |-> OperandShape(SrcTok(2))],
                    OperandShape(SrcTok(4)))
    ELSE Nil

C4_InfixTree ==
    InfixExpected # Nil =>
        /\ status \notin {"error", "panic"}
        /\ Len(prog) <= 1
        /\ status = "done" =>
              ShapeSeq(retProg.Statements) = <<[node |-> "ExprStmt", Expr |-> InfixExpected]>>

-----------------------------------------------------------------------------
(* C3: on a source made only of well-formed statements Parse returns no    *)
(* error and a Program with one statement for each statement of the        *)
(* source, in source order, each of the kind of its source statement, with *)
(* its name, its prefix operators in order and its identifier or integer   *)
(* value; while it runs, the statements parsed so far are the first ones   *)
(* of the source, and the token its next iteration looks at is EOF exactly *)
(* when every statement has been parsed.                                   *)

RECURSIVE WfExprShape(_, _)
WfExprShape(ops, operand) ==
    IF ops = <<>>
    THEN IF operand = <<"0", "7">>
         THEN [node |-> "IntLiteralExpr", Value |-> 7]
         ELSE [node |-> "IdentExpr", Value |-> operand]
    ELSE [node |-> "PrefixExpr", Operator |-> <<Head(ops)>>,
          Expr |-> WfExprShape(Tail(ops), operand)]

WfStmtShape(w) ==
    CASE w.kind = "let" ->
           [node |-> "LetStmt", Name |-> [node |-> "IdentExpr", Value |-> <<"x">>],
            Value |-> WfExprShape(w.ops, w.operand)]
      [] w.kind = "return" ->
           [node |-> "ReturnStmt", Value |-> WfExprShape(w.ops, w.operand)]
      [] w.kind = "expr" ->
           [node |-> "ExprStmt", Expr |-> WfExprShape(w.ops, w.operand)]

WfExpected == [k \in 1..Len(words) |-> WfStmtShape(words[k])]

C3_WellFormedParses ==
    /\ status \in {"run", "done"}
    /\ IsPrefixOf(ShapeSeq(prog), WfExpected)
    /\ status = "run" =>
          /\ LexerPeek(lex).err = Nil
          /\ LexerPeek(lex).tok.Type = EOF <=> Len(prog) = Len(words)
    /\ status = "done" =>
          /\ retErr = Nil
          /\ ShapeSeq(retProg.Statements) = WfExpected

\* Parse has returned the two statements of `let x = !-07;` and `-lets`
\* ended by a newline.
C3_Witness ==
    /\ status = "done"
    /\ Len(words) = 2
    /\ words[1] = [kind |-> "let", ops |-> <<"!", "-">>, operand |-> <<"0", "7">>, end |-> <<";">>]
    /\ words[2] = [kind |-> "expr", ops |-> <<"-">>, operand |-> <<"l", "e", "t", "s">>, end |-> <<NL>>]
    /\ Len(retProg.Statements) = 2
    /\ retProg.Statements[1].Value.Expr.Expr.Value = 7
    /\ retProg.Statements[2].Expr.Expr.Value = <<"l", "e", "t", "s">>

-----------------------------------------------------------------------------
(* C11: a token scanned at one of the runes ; + - * / < > ( ) { } [ ] ,    *)
(* is that rune alone with the rune's own token type; at '=' or '!' it is  *)
(* EQ or NEQ and two runes long when the rune after it is '=', else ASSIGN *)
(* or NOT and one rune long; it comes without error, at the position of    *)
(* its first rune, and the scan after a token at '=' or '!' starts at the   *)
(* first rune after the token that is not white space, EOF when there is   *)
(* none.                                                                   *)

SingleRuneKinds ==
    [r \in {";", "+", "-", "*", "/", "<", ">", "(", ")", "{", "}", "[", "]", ","} |->
        CASE r = ";" -> SEMICOLON [] r = "+" -> ADD [] r = "-" -> SUB
          [] r = "*" -> MUL [] r = "/" -> DIV [] r = "<" -> LT [] r = ">" -> GT
          [] r = "(" -> LPAREN [] r = ")" -> RPAREN [] r = "{" -> LBRACE
          [] r = "}" -> RBRACE [] r = "[" -> LSQUARE [] r = "]" -> RSQUARE
          [] r = "," -> COMMA]

\* The index of the first rune of s at or after k that is not white space,
\* 0 when there is none.
RECURSIVE FirstNonSpace(_, _)
FirstNonSpace(s, k) ==
    IF k > Len(s) THEN 0
    ELSE IF s[k] \in {" ", NL} THEN FirstNonSpace(s, k + 1)
    ELSE k

\* The operator token of the source s that begins at its k-th rune.
OperatorTokenAt(s, k) ==
    LET two == s[k] \in {"=", "!"} /\ k < Len(s) /\ s[k + 1] = "="
    IN [Type |-> IF s[k] = "=" THEN (IF two THEN EQ ELSE ASSIGN)
                 ELSE IF s[k] = "!" THEN (IF two THEN NEQ ELSE NOT)
                 ELSE SingleRuneKinds[s[k]],
        File |-> "f.mky",
        Line |-> LineOf(s, k),
        Col |-> ColOf(s, k),
        String |-> IF two THEN <<s[k], "=">> ELSE <<s[k]>>,
        Int |-> 0]

C11_OperatorScanning ==
    (/\ status = "api"
     /\ fresh
     /\ lastOff > 0
     /\ input[lastOff] \in DOMAIN SingleRuneKinds \cup {"=", "!"}) =>
        /\ lastErr = Nil
        /\ lastTok = OperatorTokenAt(input, lastOff)
        /\ input[lastOff] \in {"=", "!"} =>
              TokOff(lex) =
                  FirstNonSpace(input, lastOff + Len(OperatorTokenAt(input, lastOff).String))

-----------------------------------------------------------------------------
(* C12: no rune is skipped or folded into a token. The first scan starts   *)
(* at the first rune of the source that is not white space and every later *)
(* one at the first such rune after the token, or the rune in error, of    *)
(* the scan before it; a scan that starts at a rune that is neither white  *)
(* space, letter, digit nor operator or delimiter, U+0000 included,        *)
(* returns a lex error that names that rune as an invalid token; and the   *)
(* runes of a token returned are none of them such a rune.                 *)

IllegalRune(r) ==
    /\ r \notin {" ", NL}
    /\ r \notin Lower \cup Upper \cup UnicodeLetters
    /\ r \notin AsciiDigits \cup UnicodeDigits
    /\ r \notin DOMAIN SingleRuneKinds \cup {"=", "!"}

\* The index after the last rune the last scan is to have taken.
ScanEnd ==
    IF lastOp = "none" THEN 1
    ELSE IF lastOff = 0 THEN Len(input) + 1
    ELSE IF lastErr # Nil THEN lastOff + 1
    ELSE lastOff + Len(lastTok.String)

C12_IllegalRunes ==
    status = "api" =>
        /\ TokOff(lex) = FirstNonSpace(input, ScanEnd)
        /\ (lastOff > 0 /\ IllegalRune(input[lastOff])) =>
              /\ lastTok = Nil
              /\ lastErr # Nil
              /\ lastErr.kind = "lexer.Error"
              /\ lastErr.Err = [kind |-> "invalid token", s |-> <<input[lastOff]>>]
        /\ (lastOff > 0 /\ lastErr = Nil) =>
              \A k \in lastOff..(ScanEnd - 1) : ~IllegalRune(input[k])

-----------------------------------------------------------------------------
(* C13: a scan that starts at a digit rune takes the longest run of digit  *)
(* runes there. When the run is a decimal literal int64 can hold, the call *)
(* returns one INT token with the run as its lexeme, the literal's decimal *)
(* value and the position of its first rune; when it is not, the call      *)
(* returns a lex error that carries the file name and the line and column  *)
(* of the literal. The next scan starts after the run.                     *)

DigitRunes == AsciiDigits \cup UnicodeDigits

\* The index after the longest run of digit runes of s that begins at k.
RECURSIVE DigitRunEnd(_, _)
DigitRunEnd(s, k) ==
    IF k <= Len(s) /\ s[k] \in DigitRunes THEN DigitRunEnd(s, k + 1) ELSE k

\* The decimal values of the literals of the sources that int64 can hold.
IntValues ==
    [lit \in {<<"0">>, <<"5">>, <<"0", "0", "7">>,
              <<"2", "1", "4", "7", "4", "8", "3", "6", "4", "7">>} |->
        CASE lit = <<"0">> -> 0
          [] lit = <<"5">> -> 5
          [] lit = <<"0", "0", "7">> -> 7
          [] OTHER -> 2147483647]

DigitRunAt(s, k) == SubSeq(s, k, DigitRunEnd(s, k) - 1)

C13_IntegerScanning ==
    (/\ status = "api"
     /\ lastOff > 0
     /\ input[lastOff] \in DigitRunes) =>
        /\ TokOff(lex) = FirstNonSpace(input, DigitRunEnd(input, lastOff))
        /\ IF DigitRunAt(input, lastOff) \in DOMAIN IntValues
           THEN /\ lastErr = Nil
                /\ lastTok = [Type |-> INT, File |-> "f.mky",
                              Line |-> LineOf(input, lastOff),
                              Col |-> ColOf(input, lastOff),
                              String |-> DigitRunAt(input, lastOff),
                              Int |-> IntValues[DigitRunAt(input, lastOff)]]
           ELSE /\ lastTok = Nil
                /\ lastErr # Nil
                /\ lastErr.kind = "lexer.Error"
                /\ lastErr.File = "f.mky"
                /\ lastErr.Line = LineOf(input, lastOff)
                /\ lastErr.Col = ColOf(input, lastOff)

-----------------------------------------------------------------------------
(* C14: every error Parse returns carries a source name, which for a       *)
(* source held in memory is a sentinel and not the empty name, and a line  *)
(* and a column that are at least 1; those of a lex error about an invalid *)
(* rune are the line and the column of such a rune of the source.          *)

\* The place an error carries, Nil when it carries none.
ErrorPos(e) ==
    CASE e.kind = "lexer.Error" -> lexerErrorPos(e)
      [] e.kind = "parser.Error" -> parserErrorPos(e)
      [] OTHER -> Nil

C14_ErrorsCarryPosition ==
    status = "error" =>
        /\ ErrorPos(retErr) # Nil
        /\ ErrorPos(retErr).File # ""
        /\ ErrorPos(retErr).Line >= 1
        /\ ErrorPos(retErr).Col >= 1
        /\ retErr.kind = "lexer.Error" =>
              \E k \in 1..Len(input) :
                  /\ IllegalRune(input[k])
                  /\ retErr.Err = [kind |-> "invalid token", s |-> <<input[k]>>]
                  /\ ErrorPos(retErr).Line = LineOf(input, k)
                  /\ ErrorPos(retErr).Col = ColOf(input, k)

-----------------------------------------------------------------------------
(* C15: when a Next() or Peek() has returned an EOF token, the call after  *)
(* it, Next() or Peek(), returns no error and an EOF token with the same   *)
(* line and column; so every later call does, in every order of calls.     *)
C15_EOFIdempotent ==
    (/\ status = "api"
     /\ prevOp # "none"
     /\ prevTok # Nil
     /\ prevTok.Type = EOF) =>
        /\ lastErr = Nil
        /\ lastTok # Nil
        /\ lastTok.Type = EOF
        /\ lastTok.Line = prevTok.Line
        /\ lastTok.Col = prevTok.Col

\* A Next() that scanned again has returned EOF after a Next() had returned
\* it, on a source of two lines.
C15_Witness ==
    /\ status = "api"
    /\ prevOp = "Next"
    /\ prevTok # Nil
    /\ prevTok.Type = EOF
    /\ lastOp = "Next"
    /\ fresh
    /\ lastTok # Nil
    /\ lastTok.Type = EOF
    /\ lastTok.Line = 2
    /\ lastTok.Col = 1

-----------------------------------------------------------------------------
(* C16: every token Next() or Peek() returns, the EOF token included, has  *)
(* a line that is at least 1 and a column that is at least 1.              *)
C16_PositionsAtLeastOne ==
    (status = "api" /\ lastTok # Nil) =>
        /\ lastTok.Line >= 1
        /\ lastTok.Col >= 1

-----------------------------------------------------------------------------
(* C17: on a source in the form of the parser tests Parse returns a        *)
(* Program without error, and the text String() returns for it, which is   *)
(* the text parsed in the second pass, is the source, rune for rune.       *)
C17_StringEqualsSource ==
    /\ status \notin {"error", "panic", "strpanic"}
    /\ pass = 2 => input = Flatten(words)

-----------------------------------------------------------------------------
(* C18: a source of well-formed statements parses without error to as many *)
(* statements as it has, whichever of them end in ';' (a ';' starts no     *)
(* statement of its own), and the source with the ';' of each statement    *)
(* added or taken away parses to a Program of the same structure.          *)
C18_OptionalSemicolon ==
    /\ status \in {"run", "done"}
    /\ Len(prog) <= Len(words)
    /\ status = "done" =>
          /\ Len(retProg.Statements) = Len(words)
          /\ pass = 2 => ShapeSeq(retProg.Statements) = ShapeSeq(prog1.Statements)

\* Both sources of `let x = -07; lets` have been parsed: the first with the
\* ';' after the first statement only, the second with it after the second.
C18_Witness ==
    /\ pass = 2
    /\ status = "done"
    /\ Len(words) = 2
    /\ words[1] = [kind |-> "let", ops |-> <<"-">>, operand |-> <<"0", "7">>, semi |-> TRUE]
    /\ words[2] = [kind |-> "expr", ops |-> <<>>, operand |-> <<"l", "e", "t", "s">>, semi |-> FALSE]
    /\ Len(retProg.Statements) = 2
    /\ retProg.Statements[1].node = "LetStmt"
    /\ retProg.Statements[2].node = "ExprStmt"

-----------------------------------------------------------------------------
(* C19: when ParseFile has returned, with a Program or with an error of    *)
(* the lexer or the parser, the file it opened has been closed exactly     *)
(* once.                                                                   *)
C19_FileReleased ==
    (status \in {"done", "error"} /\ lex # Nil) =>
        /\ lex.closer # Nil
        /\ lex.closer.closed = 1

-----------------------------------------------------------------------------
(* C20: every iteration of the loop of Parse returns or consumes a token,  *)
(* so that the Program under construction never has more statements than  *)
(* the source has tokens. A source of the first pass has at most one token *)
(* for each of its words.                                                  *)
C20_StatementsBoundedByTokens ==
    pass = 1 => Len(prog) <= Len(words)


-----------------------------------------------------------------------------
(* C21: the prefix and infix rule tables of the parser have a slot for     *)
(* every token kind the lexer produces, ILLEGAL through TRUE: whenever     *)
(* the loop of Parse peeks a token that starts an expression statement,    *)
(* the token's type is an index of both tables, and no run of Parse ends   *)
(* in the panic of an index outside a table.                               *)

C21_RuleTablesCoverTokens ==
    /\ status # "panic"
    /\ (Running /\ LexerPeek(lex).err = Nil
            /\ LexerPeek(lex).tok.Type \notin {KW_LET, RETURN, EOF})
        => /\ LexerPeek(lex).tok.Type \in DOMAIN prefixParseFns
           /\ LexerPeek(lex).tok.Type \in DOMAIN infixParseFns


-----------------------------------------------------------------------------
(* C22: Peek() never consumes input, also when it fails: from every state  *)
(* of the Lexer the successive Next() calls return the same tokens and lex *)
(* errors whether or not a Peek() is made before each of them, and the     *)
(* Next() that follows a Peek() that returned a lex error returns that     *)
(* same error.                                                             *)

\* The result of the k-th Next() on a Lexer l when a Peek() goes before
\* every Next(): [l, tok, err].
RECURSIVE NthPeekedNext(_, _)
NthPeekedNext(l, k) ==
    IF k <= 1 THEN LexerNext(LexerPeek(l).l)
    ELSE NthPeekedNext(LexerNext(LexerPeek(l).l).l, k - 1)

C22_PeekConsumesNothing ==
    /\ status = "api" =>
          /\ \A k \in 1..(MaxRunes + 1) :
                /\ NthPeekedNext(lex, k).tok = NthNext(lex, k).tok
                /\ NthPeekedNext(lex, k).err = NthNext(lex, k).err
          /\ LexerPeek(lex).err # Nil =>
                LexerNext(LexerPeek(lex).l).err = LexerPeek(lex).err
    /\ (prevOp = "Peek" /\ prevTok = Nil /\ lastOp = "Next") => lastErr # Nil


-----------------------------------------------------------------------------
(* C23: after Start(), a call of the cancel() it returned always           *)
(* eventually returns, whatever the loop is doing and without a further    *)
(* line on stdin or a reader taking what is written to stdout; and when    *)
(* it has returned the goroutine of loop has finished and done is closed.  *)

C23_CancelReturns ==
    /\ [](cancelPc = "returned" => (loopPc = "returned" /\ done = "closed"))
    /\ (cancelPc = "waiting") ~> (cancelPc = "returned")

====
